---- MODULE Spec2Model ----
(***************************************************************************)
(* A model of backend/src/services/ai_chat_service.py: the natural-language *)
(* todo command router (AIChatService).  Text is modelled character by      *)
(* character: a Python str is a sequence of one-character strings, so that  *)
(* lower(), strip(), replace() and the `in` substring test are computed as  *)
(* Python computes them.                                                    *)
(***************************************************************************)
EXTENDS Integers, Sequences, FiniteSets, TLC

VARIABLES
    todos,          \* the todo table, in creation order
    conversations,  \* the conversation table, in creation order
    messages,       \* the message table, in insertion order
    nextTodoId,     \* next primary key of the todo table
    pc,             \* position of the one call in flight
    cur,            \* arguments and locals of the call in flight (kept after it returns)
    response,       \* the local `response` / `ai_response`
    ret,            \* what the last call returned
    aiRequest,      \* what the last call handed to the AI client
    trace,          \* the store and AI operations issued by the call, in order
    exc,            \* details of the exception a handler of the call raised
    nCalls,         \* calls started
    nExt,           \* operations of other clients of the todo store
    lastCall,       \* per user: summary of the latest returned call
    prevCall,       \* per user: summary of the returned call before it
    fnInput,        \* argument of the pure functions (second specification)
    fnIntent,       \* _determine_intent(fnInput)
    fnTitle         \* _extract_todo_info(fnInput).title

vars == <<todos, conversations, messages, nextTodoId, pc, cur, response, ret,
          aiRequest, trace, exc, nCalls, nExt, lastCall, prevCall,
          fnInput, fnIntent, fnTitle>>

None == <<"none">>

-----------------------------------------------------------------------------
(* Python str operations *)

UpperChars == <<"A","B","C","D","E","F","G","H","I","J","K","L","M",
                "N","O","P","Q","R","S","T","U","V","W","X","Y","Z">>
LowerChars == <<"a","b","c","d","e","f","g","h","i","j","k","l","m",
                "n","o","p","q","r","s","t","u","v","w","x","y","z">>

LowerChar(c) ==
    IF \E i \in 1..Len(UpperChars) : UpperChars[i] = c
    THEN LowerChars[CHOOSE i \in 1..Len(UpperChars) : UpperChars[i] = c]
    ELSE c

\* str.lower()
Lower(s) == [i \in 1..Len(s) |-> LowerChar(s[i])]

IsSpace(c) == c \in {" ", "\n", "\t"}

RECURSIVE LStrip(_)
LStrip(s) == IF s # <<>> /\ IsSpace(Head(s)) THEN LStrip(Tail(s)) ELSE s

RECURSIVE RStrip(_)
RStrip(s) ==
    IF s # <<>> /\ IsSpace(s[Len(s)]) THEN RStrip(SubSeq(s, 1, Len(s) - 1)) ELSE s

\* str.strip()
Strip(s) == RStrip(LStrip(s))

StartsWith(s, k) == Len(k) <= Len(s) /\ SubSeq(s, 1, Len(k)) = k

\* k in s
Contains(s, k) ==
    \E i \in 1..(Len(s) - Len(k) + 1) : SubSeq(s, i, i + Len(k) - 1) = k

\* s.replace(k, ""): left to right, non-overlapping, one pass
RECURSIVE Remove(_, _)
Remove(s, k) ==
    IF Len(s) < Len(k) THEN s
    ELSE IF StartsWith(s, k) THEN Remove(SubSeq(s, Len(k) + 1, Len(s)), k)
    ELSE <<Head(s)>> \o Remove(Tail(s), k)

\* "sep".join(parts)
RECURSIVE Join(_, _)
Join(parts, sep) ==
    IF parts = <<>> THEN <<>>
    ELSE IF Len(parts) = 1 THEN parts[1]
    ELSE parts[1] \o sep \o Join(Tail(parts), sep)

Digits == <<"0","1","2","3","4","5","6","7","8","9">>

\* str(id) of a positive integer key
RECURSIVE IdStr(_)
IdStr(n) == IF n < 10 THEN <<Digits[n + 1]>>
            ELSE IdStr(n \div 10) \o <<Digits[(n % 10) + 1]>>

-----------------------------------------------------------------------------
(* _determine_intent *)

add_keywords      == <<<<"a", "d", "d">>, <<"c", "r", "e", "a", "t", "e">>, <<"n", "e", "w">>, <<"m", "a", "k", "e">>, <<"r", "e", "m", "e", "m", "b", "e", "r">>, <<"r", "e", "m", "i", "n", "d">>>>
list_keywords     == <<<<"l", "i", "s", "t">>, <<"s", "h", "o", "w">>, <<"s", "e", "e">>, <<"v", "i", "e", "w">>, <<"d", "i", "s", "p", "l", "a", "y">>, <<"a", "l", "l">>, <<"m", "y">>>>
complete_keywords == <<<<"c", "o", "m", "p", "l", "e", "t", "e">>, <<"d", "o", "n", "e">>, <<"f", "i", "n", "i", "s", "h">>, <<"m", "a", "r", "k">>, <<"a", "s", " ", "d", "o", "n", "e">>, <<"c", "h", "e", "c", "k">>>>
delete_keywords   == <<<<"d", "e", "l", "e", "t", "e">>, <<"r", "e", "m", "o", "v", "e">>, <<"c", "a", "n", "c", "e", "l">>, <<"e", "r", "a", "s", "e">>, <<"g", "e", "t", " ", "r", "i", "d", " ", "o", "f">>>>
update_keywords   == <<<<"u", "p", "d", "a", "t", "e">>, <<"c", "h", "a", "n", "g", "e">>, <<"m", "o", "d", "i", "f", "y">>, <<"e", "d", "i", "t">>, <<"r", "e", "n", "a", "m", "e">>, <<"f", "i", "x">>>>

\* any(keyword in user_input for keyword in keywords)
AnyKeyword(text, keywords) ==
    \E i \in 1..Len(keywords) : Contains(text, keywords[i])

_determine_intent_DeleteFirst(user_input) ==
    LET text == Lower(user_input) IN
    IF AnyKeyword(text, delete_keywords) THEN "delete"
    ELSE IF AnyKeyword(text, add_keywords) THEN "add"
    ELSE IF AnyKeyword(text, list_keywords) THEN "list"
    ELSE IF AnyKeyword(text, complete_keywords) THEN "complete"
    ELSE IF AnyKeyword(text, update_keywords) THEN "update"
    ELSE "other"

_determine_intent(user_input) ==
    LET text == Lower(user_input) IN
    IF AnyKeyword(text, add_keywords) THEN "add"
    ELSE IF AnyKeyword(text, list_keywords) THEN "list"
    ELSE IF AnyKeyword(text, complete_keywords) THEN "complete"
    ELSE IF AnyKeyword(text, delete_keywords) THEN "delete"
    ELSE IF AnyKeyword(text, update_keywords) THEN "update"
    ELSE "other"

-----------------------------------------------------------------------------
(* _extract_todo_info *)

prefixes == <<<<"a", "d", "d">>, <<"c", "r", "e", "a", "t", "e">>, <<"n", "e", "w">>, <<"r", "e", "m", "e", "m", "b", "e", "r">>, <<"r", "e", "m", "i", "n", "d">>, <<"m", "e">>, <<"t", "o">>>>

\* for prefix in [...]: user_input = user_input.replace(prefix, "").strip()
RECURSIVE StripPrefixes(_, _)
StripPrefixes(text, i) ==
    IF i > Len(prefixes) THEN text
    ELSE StripPrefixes(Strip(Remove(text, prefixes[i])), i + 1)

_extract_todo_info_NoStrip(user_input) ==
    LET RECURSIVE Pass(_, _)
        Pass(text, i) == IF i > Len(prefixes) THEN text
                         ELSE Pass(Remove(text, prefixes[i]), i + 1)
    IN  [title |-> Pass(Lower(user_input), 1), description |-> <<>>]

_extract_todo_info(user_input) ==
    [title |-> Strip(StripPrefixes(Lower(user_input), 1)), description |-> <<>>]

-----------------------------------------------------------------------------
(* Bounds *)

MaxCalls == 2     \* calls of the service per behaviour
MaxExt == 1       \* operations of other clients of the todo store per behaviour
MaxPieces == 3    \* pieces of text per argument of the pure functions

Users == {"u1", "u2"}

-----------------------------------------------------------------------------
(* The todo store client (TodoService) *)

Reverse(s) == [i \in 1..Len(s) |-> s[Len(s) + 1 - i]]

FirstN(s, n) == SubSeq(s, 1, IF Len(s) < n THEN Len(s) ELSE n)

LastN(s, n) == SubSeq(s, IF Len(s) > n THEN Len(s) - n + 1 ELSE 1, Len(s))

\* list(owner, completed?, page=1, limit): newest first
get_user_todos(tds, user, completed, limit) ==
    LET Wanted(t) == /\ t.owner = user
                     /\ (completed = "None" \/ t.is_completed = (completed = "True"))
    IN  FirstN(Reverse(SelectSeq(tds, Wanted)), limit)

create_todo(tds, id, user, todo_data) ==
    Append(tds, [id |-> id, owner |-> user, title |-> todo_data.title,
                 description |-> todo_data.description,
                 is_completed |-> todo_data.is_completed])

HasTodo(tds, todo_id) == \E i \in 1..Len(tds) : IdStr(tds[i].id) = todo_id

TodoIndex(tds, todo_id) == CHOOSE i \in 1..Len(tds) : IdStr(tds[i].id) = todo_id

NotFound == <<"T", "o", "d", "o", " ", "n", "o", "t", " ", "f", "o", "u", "n", "d">>
Forbidden == <<"N", "o", "t", " ", "a", "u", "t", "h", "o", "r", "i", "z", "e", "d", " ", "t", "o", " ", "a", "c", "c", "e", "s", "s", " ", "t", "h", "i", "s", " ", "t", "o", "d", "o">>

\* the error a lookup by id and owner fails with, or <<>>
AccessError(tds, todo_id, user) ==
    IF ~HasTodo(tds, todo_id) THEN NotFound
    ELSE IF tds[TodoIndex(tds, todo_id)].owner # user THEN Forbidden
    ELSE <<>>

\* toggle_completion(id, owner) -> item | fails NotFound/Forbidden
toggle_todo_completion(tds, todo_id, user) ==
    LET i == TodoIndex(tds, todo_id) IN
    [tds EXCEPT ![i].is_completed = ~tds[i].is_completed]

\* update(id, owner, fields) -> item | fails NotFound/Forbidden
update_todo(tds, todo_id, user, update_data) ==
    LET i == TodoIndex(tds, todo_id) IN
    [tds EXCEPT ![i] = [f \in DOMAIN tds[i] |->
        IF f \in DOMAIN update_data THEN update_data[f] ELSE tds[i][f]]]

\* delete(id, owner) -> bool
delete_todo(tds, todo_id, user) ==
    IF AccessError(tds, todo_id, user) # <<>>
    THEN [ok |-> FALSE, todos |-> tds]
    ELSE [ok |-> TRUE,
          todos |-> SelectSeq(tds, LAMBDA t : IdStr(t.id) # todo_id)]

-----------------------------------------------------------------------------
(* The conversation and message store clients *)

\* list_recent(owner, page=1, limit): newest first
get_user_conversations(convs, user, limit) ==
    FirstN(Reverse(SelectSeq(convs, LAMBDA c : c.owner = user)), limit)

create_conversation(convs, user) ==
    Append(convs, [id |-> Len(convs) + 1, owner |-> user])

create_message(msgs, conversation, role, content) ==
    Append(msgs, [conv |-> conversation.id, role |-> role, content |-> content])

\* list(conversation, owner, page=1, limit): the last `limit` messages, in order
get_messages_by_conversation(msgs, conversation, user, limit) ==
    IF conversation.owner # user THEN <<>>
    ELSE LastN(SelectSeq(msgs, LAMBDA m : m.conv = conversation.id), limit)

-----------------------------------------------------------------------------
(* The handlers.  A handler result is [raised, text, todos, nextId, request,  *)
(* err, ops]: whether it raised, the string it returned (or the exception's  *)
(* details), the todo table it leaves, what it sent to the AI client, the    *)
(* details of an exception raised inside it, and the operations it issued.   *)

ListLimit == 20
HistoryLimit == 10

ErrorPrefix == <<"I", "'", "m", " ", "s", "o", "r", "r", "y", ",", " ", "I", " ", "e", "n", "c", "o", "u", "n", "t", "e", "r", "e", "d", " ", "a", "n", " ", "e", "r", "r", "o", "r", " ", "p", "r", "o", "c", "e", "s", "s", "i", "n", "g", " ", "y", "o", "u", "r", " ", "r", "e", "q", "u", "e", "s", "t", ":", " ">>

Result(raised, text, tds, nid, ops) ==
    [raised |-> raised, text |-> text, todos |-> tds, nextId |-> nid,
     request |-> None, err |-> IF raised THEN text ELSE None, ops |-> ops]

_extract_todo_id_AnyUser(tds, user) ==
    IF tds # <<>> THEN IdStr(tds[Len(tds)].id) ELSE <<>>

\* the id of the most recently created todo of the user, or ""
_extract_todo_id(tds, user) ==
    LET page == get_user_todos(tds, user, "None", 1) IN
    IF page # <<>> THEN IdStr(page[1].id) ELSE <<>>

_handle_add_todo_RawTitle(tds, nid, user_input, user) ==
    LET todo_data == [title |-> user_input, description |-> <<>>,
                      is_completed |-> FALSE]
        created == create_todo(tds, nid, user, todo_data)
    IN  Result(FALSE, <<"I", "'", "v", "e", " ", "a", "d", "d", "e", "d", " ", "'">> \o _extract_todo_info(user_input).title
                      \o <<"'", " ", "t", "o", " ", "y", "o", "u", "r", " ", "t", "o", "d", "o", " ", "l", "i", "s", "t", ".">>,
               created, nid + 1, <<"todo.create">>)

_handle_add_todo(tds, nid, user_input, user) ==
    LET todo_info == _extract_todo_info(user_input)
        todo_data == [title |-> todo_info.title,
                      description |-> todo_info.description,
                      is_completed |-> FALSE]
        created == create_todo(tds, nid, user, todo_data)
        new_todo == created[Len(created)]
    IN  Result(FALSE, <<"I", "'", "v", "e", " ", "a", "d", "d", "e", "d", " ", "'">> \o new_todo.title \o <<"'", " ", "t", "o", " ", "y", "o", "u", "r", " ", "t", "o", "d", "o", " ", "l", "i", "s", "t", ".">>,
               created, nid + 1, <<"todo.create">>)

_handle_list_todos(tds, nid, user_input, user) ==
    LET user_input_lower == Lower(user_input)
        status_filter ==
            IF Contains(user_input_lower, <<"p", "e", "n", "d", "i", "n", "g">>)
               \/ Contains(user_input_lower, <<"i", "n", "c", "o", "m", "p", "l", "e", "t", "e">>) THEN "False"
            ELSE IF Contains(user_input_lower, <<"c", "o", "m", "p", "l", "e", "t", "e", "d">>)
               \/ Contains(user_input_lower, <<"d", "o", "n", "e">>) THEN "True"
            ELSE "None"
        page == get_user_todos(tds, user, status_filter, ListLimit)
        todo_list == Join([i \in 1..Len(page) |-> <<"-", " ">> \o page[i].title], <<"\n">>)
        text ==
            IF page = <<>> THEN
                IF status_filter = "False"
                THEN <<"Y", "o", "u", " ", "d", "o", "n", "'", "t", " ", "h", "a", "v", "e", " ", "a", "n", "y", " ", "p", "e", "n", "d", "i", "n", "g", " ", "t", "o", "d", "o", "s", " ", "r", "i", "g", "h", "t", " ", "n", "o", "w", ".">>
                ELSE IF status_filter = "True"
                THEN <<"Y", "o", "u", " ", "d", "o", "n", "'", "t", " ", "h", "a", "v", "e", " ", "a", "n", "y", " ", "c", "o", "m", "p", "l", "e", "t", "e", "d", " ", "t", "o", "d", "o", "s", " ", "r", "i", "g", "h", "t", " ", "n", "o", "w", ".">>
                ELSE <<"Y", "o", "u", " ", "d", "o", "n", "'", "t", " ", "h", "a", "v", "e", " ", "a", "n", "y", " ", "t", "o", "d", "o", "s", " ", "r", "i", "g", "h", "t", " ", "n", "o", "w", ".">>
            ELSE IF status_filter = "False"
                THEN <<"H", "e", "r", "e", " ", "a", "r", "e", " ", "y", "o", "u", "r", " ", "p", "e", "n", "d", "i", "n", "g", " ", "t", "o", "d", "o", "s", ":", "\n">> \o todo_list
            ELSE IF status_filter = "True"
                THEN <<"H", "e", "r", "e", " ", "a", "r", "e", " ", "y", "o", "u", "r", " ", "c", "o", "m", "p", "l", "e", "t", "e", "d", " ", "t", "o", "d", "o", "s", ":", "\n">> \o todo_list
            ELSE <<"H", "e", "r", "e", " ", "a", "r", "e", " ", "y", "o", "u", "r", " ", "t", "o", "d", "o", "s", ":", "\n">> \o todo_list
    IN  Result(FALSE, text, tds, nid, <<"todo.list">>)

NoTodoToComplete ==
    <<"I", " ", "c", "o", "u", "l", "d", "n", "'", "t", " ", "f", "i", "n", "d", " ", "a", " ", "s", "p", "e", "c", "i", "f", "i", "c", " ", "t", "o", "d", "o", " ", "t", "o", " ", "m", "a", "r", "k", " ", "a", "s", " ", "c", "o", "m", "p", "l", "e", "t", "e", ".", " ", "P", "l", "e", "a", "s", "e", " ", "s", "p", "e", "c", "i", "f", "y", " ", "w", "h", "i", "c", "h", " ", "t", "o", "d", "o", " ", "y", "o", "u", " ", "w", "a", "n", "t", " ", "t", "o", " ", "c", "o", "m", "p", "l", "e", "t", "e", ".">>
NoTodoToDelete ==
    <<"I", " ", "c", "o", "u", "l", "d", "n", "'", "t", " ", "f", "i", "n", "d", " ", "a", " ", "s", "p", "e", "c", "i", "f", "i", "c", " ", "t", "o", "d", "o", " ", "t", "o", " ", "d", "e", "l", "e", "t", "e", ".", " ", "P", "l", "e", "a", "s", "e", " ", "s", "p", "e", "c", "i", "f", "y", " ", "w", "h", "i", "c", "h", " ", "t", "o", "d", "o", " ", "y", "o", "u", " ", "w", "a", "n", "t", " ", "t", "o", " ", "d", "e", "l", "e", "t", "e", ".">>
NoTodoToUpdate == <<"Y", "o", "u", " ", "d", "o", "n", "'", "t", " ", "h", "a", "v", "e", " ", "a", "n", "y", " ", "t", "o", "d", "o", "s", " ", "t", "o", " ", "u", "p", "d", "a", "t", "e", ".">>
NoNewTitle == <<"P", "l", "e", "a", "s", "e", " ", "s", "p", "e", "c", "i", "f", "y", " ", "w", "h", "a", "t", " ", "y", "o", "u", "'", "d", " ", "l", "i", "k", "e", " ", "t", "o", " ", "c", "h", "a", "n", "g", "e", " ", "t", "h", "e", " ", "t", "o", "d", "o", " ", "t", "o", ".">>

_handle_complete_todo_StaleStatus(tds, nid, todo_id, user) ==
    LET err == AccessError(tds, todo_id, user)
        toggled == toggle_todo_completion(tds, todo_id, user)
        todo == tds[TodoIndex(tds, todo_id)]
        status == IF todo.is_completed THEN <<"c", "o", "m", "p", "l", "e", "t", "e", "d">>
                  ELSE <<"m", "a", "r", "k", "e", "d", " ", "a", "s", " ", "i", "n", "c", "o", "m", "p", "l", "e", "t", "e">>
    IN  IF err # <<>> THEN Result(TRUE, err, tds, nid, <<"todo.toggle">>)
        ELSE Result(FALSE, <<"I", "'", "v", "e", " ", "m", "a", "r", "k", "e", "d", " ", "'">> \o todo.title \o <<"'", " ", "a", "s", " ">> \o status \o <<".">>,
                    toggled, nid, <<"todo.toggle">>)

\* _handle_complete_todo after the id is found: toggle and report
_handle_complete_todo(tds, nid, todo_id, user) ==
    LET err == AccessError(tds, todo_id, user)
        toggled == toggle_todo_completion(tds, todo_id, user)
        todo == toggled[TodoIndex(toggled, todo_id)]
        status == IF todo.is_completed THEN <<"c", "o", "m", "p", "l", "e", "t", "e", "d">>
                  ELSE <<"m", "a", "r", "k", "e", "d", " ", "a", "s", " ", "i", "n", "c", "o", "m", "p", "l", "e", "t", "e">>
    IN  IF err # <<>> THEN Result(TRUE, err, tds, nid, <<"todo.toggle">>)
        ELSE Result(FALSE, <<"I", "'", "v", "e", " ", "m", "a", "r", "k", "e", "d", " ", "'">> \o todo.title \o <<"'", " ", "a", "s", " ">> \o status \o <<".">>,
                    toggled, nid, <<"todo.toggle">>)

\* _handle_delete_todo after the id is found: delete and report
_handle_delete_todo(tds, nid, todo_id, user) ==
    LET done == delete_todo(tds, todo_id, user) IN
    IF done.ok
    THEN Result(FALSE, <<"T", "h", "e", " ", "t", "o", "d", "o", " ", "h", "a", "s", " ", "b", "e", "e", "n", " ", "d", "e", "l", "e", "t", "e", "d", " ", "s", "u", "c", "c", "e", "s", "s", "f", "u", "l", "l", "y", ".">>,
                done.todos, nid, <<"todo.delete">>)
    ELSE Result(FALSE,
                <<"I", " ", "c", "o", "u", "l", "d", "n", "'", "t", " ", "d", "e", "l", "e", "t", "e", " ", "t", "h", "a", "t", " ", "t", "o", "d", "o", ".", " ", "I", "t", " ", "m", "a", "y", " ", "n", "o", "t", " ", "e", "x", "i", "s", "t", " ", "o", "r", " ", "y", "o", "u", " ", "m", "a", "y", " ", "n", "o", "t", " ", "h", "a", "v", "e", " ", "p", "e", "r", "m", "i", "s", "s", "i", "o", "n", " ", "t", "o", " ", "d", "e", "l", "e", "t", "e", " ", "i", "t", ".">>,
                done.todos, nid, <<"todo.delete">>)

\* the new title _handle_update_todo takes from the input
NewTitle(user_input) ==
    Strip(Remove(Remove(Remove(user_input, <<"u", "p", "d", "a", "t", "e">>), <<"c", "h", "a", "n", "g", "e">>), <<"m", "o", "d", "i", "f", "y">>))

_handle_update_todo_ResetFlag(tds, nid, todo_id, new_title, user) ==
    LET update_data == [title |-> new_title, is_completed |-> FALSE]
        err == AccessError(tds, todo_id, user)
        updated == update_todo(tds, todo_id, user, update_data)
    IN  IF err # <<>> THEN Result(TRUE, err, tds, nid, <<"todo.update">>)
        ELSE Result(FALSE, <<"I", "'", "v", "e", " ", "u", "p", "d", "a", "t", "e", "d", " ", "t", "h", "e", " ", "t", "o", "d", "o", " ", "t", "o", " ", "'">> \o new_title \o <<"'", ".">>,
                    updated, nid, <<"todo.update">>)

\* _handle_update_todo after the todo and the new title are found
_handle_update_todo(tds, nid, todo_id, new_title, user) ==
    LET update_data == [title |-> new_title]
        err == AccessError(tds, todo_id, user)
        updated == update_todo(tds, todo_id, user, update_data)
        updated_todo == updated[TodoIndex(updated, todo_id)]
    IN  IF err # <<>> THEN Result(TRUE, err, tds, nid, <<"todo.update">>)
        ELSE Result(FALSE, <<"I", "'", "v", "e", " ", "u", "p", "d", "a", "t", "e", "d", " ", "t", "h", "e", " ", "t", "o", "d", "o", " ", "t", "o", " ", "'">> \o updated_todo.title \o <<"'", ".">>,
                    updated, nid, <<"todo.update">>)

\* the role-tagged history built from the recent messages and the input
formatted_history(recent_messages, user_input) ==
    Append([i \in 1..Len(recent_messages) |->
                [role |-> recent_messages[i].role,
                 parts |-> <<recent_messages[i].content>>]],
           [role |-> "user", parts |-> <<user_input>>])

AllButLast(s) == SubSeq(s, 1, Len(s) - 1)

\* outcomes of the AI completion client: a text, or a transport/quota error
AiOutcomes == {[raised |-> FALSE, text |-> <<"H", "e", "l", "l", "o", "!">>],
               [raised |-> TRUE, text |-> <<"q", "u", "o", "t", "a", " ", "e", "x", "c", "e", "e", "d", "e", "d">>]}

_handle_general_query(msgs, tds, nid, user_input, conversation, user, outcome) ==
    LET recent_messages ==
            get_messages_by_conversation(msgs, conversation, user, HistoryLimit)
        history == formatted_history(recent_messages, user_input)
        request == [history |-> AllButLast(history), input |-> user_input]
    IN  [raised |-> FALSE,
         text |-> IF outcome.raised THEN ErrorPrefix \o outcome.text
                  ELSE outcome.text,
         todos |-> tds, nextId |-> nid, request |-> request,
         err |-> IF outcome.raised THEN outcome.text ELSE None,
         ops |-> <<"message.list", "ai.send">>]

CatchAll_Reraise(r) == r

\* except Exception as e: response = f"I'm sorry, ...: {str(e)}"
CatchAll(r) ==
    IF r.raised THEN [r EXCEPT !.raised = FALSE, !.text = ErrorPrefix \o r.text]
    ELSE r

-----------------------------------------------------------------------------
(* The calls.  One call is in flight at a time; pc is its position:          *)
(*   idle -> dispatch -> (apply ->) respond -> idle     for a todo command,  *)
(*   idle -> chat_generate -> chat_respond -> idle      for process_chat.    *)

TodoInputs == {<<"R", "e", "m", "i", "n", "d", " ", "m", "e", " ", "t", "o", " ", "b", "u", "y", " ", "m", "i", "l", "k">>, <<"a", "d", "d">>, <<"l", "i", "s", "t">>, <<"s", "h", "o", "w", " ", "d", "o", "n", "e">>,
               <<"m", "a", "r", "k", " ", "d", "o", "n", "e">>, <<"d", "e", "l", "e", "t", "e", " ", "i", "t">>, <<"u", "p", "d", "a", "t", "e", " ", "F", "i", "x", " ", "t", "a", "p">>, <<"u", "p", "d", "a", "t", "e">>,
               <<"h", "e", "l", "l", "o">>}

ChatInputs == {<<"h", "i">>}

NoCall == [kind |-> "none", user |-> "u1", input |-> <<>>, intent |-> "none",
           conv |-> [id |-> 0, owner |-> "u1"], target |-> <<>>,
           new_title |-> <<>>, flags |-> <<>>, clean |-> TRUE]

NoSummary == [valid |-> FALSE, intent |-> "none", target |-> <<>>,
              flags |-> <<>>, text |-> <<>>, clean |-> TRUE]

Summary(c, text) == [valid |-> TRUE, intent |-> c.intent, target |-> c.target,
                     flags |-> c.flags, text |-> text, clean |-> c.clean]

NoReturn == [kind |-> "none", text |-> <<>>]

ActiveConversation_AlwaysCreate(convs, user) ==
    LET created == create_conversation(convs, user) IN
    [conversations |-> created, conversation |-> created[Len(created)],
     ops |-> <<"conversation.list", "conversation.create">>]

\* the most recent conversation of the user, or a new one
ActiveConversation(convs, user) ==
    LET found == get_user_conversations(convs, user, 1)
        created == create_conversation(convs, user)
    IN  IF found # <<>>
        THEN [conversations |-> convs, conversation |-> found[1],
              ops |-> <<"conversation.list">>]
        ELSE [conversations |-> created, conversation |-> created[Len(created)],
              ops |-> <<"conversation.list", "conversation.create">>]

log_response_Skip(msgs, conversation, text) == msgs

\* MessageService.create_message(session, conversation, "assistant", response)
log_response(msgs, conversation, text) ==
    create_message(msgs, conversation, "assistant", text)

\* process_natural_language_todo_command up to the classification
Begin(user, user_input) ==
    /\ pc = "idle"
    /\ nCalls < MaxCalls
    /\ LET active == ActiveConversation(conversations, user) IN
        /\ conversations' = active.conversations
        /\ messages' = create_message(messages, active.conversation, "user", user_input)
        /\ cur' = [NoCall EXCEPT !.kind = "todo", !.user = user, !.input = user_input,
                                 !.intent = _determine_intent(Lower(user_input)),
                                 !.conv = active.conversation]
        /\ trace' = active.ops \o <<"message.create">>
    /\ pc' = "dispatch"
    /\ nCalls' = nCalls + 1
    /\ response' = None
    /\ ret' = NoReturn
    /\ aiRequest' = None
    /\ exc' = None
    /\ UNCHANGED <<todos, nextTodoId, nExt, lastCall, prevCall,
                   fnInput, fnIntent, fnTitle>>

\* the try/except around the handlers: what the handler's result r leads to
Finish(r) ==
    LET c == CatchAll(r) IN
    /\ todos' = r.todos
    /\ nextTodoId' = r.nextId
    /\ trace' = trace \o r.ops
    /\ exc' = r.err
    /\ aiRequest' = r.request
    /\ IF c.raised
       THEN /\ pc' = "idle"
            /\ response' = None
            /\ ret' = [kind |-> "raise", text |-> c.text]
       ELSE /\ pc' = "respond"
            /\ response' = c.text
            /\ ret' = ret
    /\ UNCHANGED <<conversations, messages, nCalls, nExt, lastCall, prevCall,
                   fnInput, fnIntent, fnTitle>>

\* a handler that returns before it writes to the todo store
Guidance(text, ops) == Finish(Result(FALSE, text, todos, nextTodoId, ops))

HandleAdd ==
    /\ pc = "dispatch" /\ cur.intent = "add"
    /\ Finish(_handle_add_todo(todos, nextTodoId, cur.input, cur.user))
    /\ UNCHANGED cur

HandleList ==
    /\ pc = "dispatch" /\ cur.intent = "list"
    /\ Finish(_handle_list_todos(todos, nextTodoId, cur.input, cur.user))
    /\ UNCHANGED cur

\* _handle_complete_todo and _handle_delete_todo up to the id check
ResolveTarget ==
    /\ pc = "dispatch" /\ cur.intent \in {"complete", "delete"}
    /\ LET todo_id == _extract_todo_id(todos, cur.user) IN
        IF todo_id = <<>>
        THEN /\ Guidance(IF cur.intent = "complete" THEN NoTodoToComplete
                         ELSE NoTodoToDelete, <<"todo.list">>)
             /\ UNCHANGED cur
        ELSE /\ pc' = "apply"
             /\ cur' = [cur EXCEPT !.target = todo_id]
             /\ trace' = Append(trace, "todo.list")
             /\ UNCHANGED <<todos, conversations, messages, nextTodoId, response,
                            ret, aiRequest, exc, nCalls, nExt, lastCall, prevCall,
                            fnInput, fnIntent, fnTitle>>

\* _handle_update_todo up to the new title check
ResolveUpdate ==
    /\ pc = "dispatch" /\ cur.intent = "update"
    /\ LET page == get_user_todos(todos, cur.user, "None", 1)
           new_title == NewTitle(cur.input)
       IN  IF page = <<>>
           THEN Guidance(NoTodoToUpdate, <<"todo.list">>) /\ UNCHANGED cur
           ELSE IF new_title = <<>>
           THEN Guidance(NoNewTitle, <<"todo.list">>) /\ UNCHANGED cur
           ELSE /\ pc' = "apply"
                /\ cur' = [cur EXCEPT !.target = IdStr(page[1].id),
                                      !.new_title = new_title]
                /\ trace' = Append(trace, "todo.list")
                /\ UNCHANGED <<todos, conversations, messages, nextTodoId, response,
                               ret, aiRequest, exc, nCalls, nExt, lastCall, prevCall,
                               fnInput, fnIntent, fnTitle>>

\* the completion flag of the todo with this id, or <<>>
FlagOf(tds, todo_id) ==
    IF HasTodo(tds, todo_id) THEN <<tds[TodoIndex(tds, todo_id)].is_completed>>
    ELSE <<>>

ApplyComplete ==
    /\ pc = "apply" /\ cur.intent = "complete"
    /\ LET r == _handle_complete_todo(todos, nextTodoId, cur.target, cur.user) IN
        /\ Finish(r)
        /\ cur' = [cur EXCEPT !.flags = FlagOf(todos, cur.target)
                                        \o FlagOf(r.todos, cur.target)]

ApplyDelete ==
    /\ pc = "apply" /\ cur.intent = "delete"
    /\ Finish(_handle_delete_todo(todos, nextTodoId, cur.target, cur.user))
    /\ UNCHANGED cur

ApplyUpdate ==
    /\ pc = "apply" /\ cur.intent = "update"
    /\ Finish(_handle_update_todo(todos, nextTodoId, cur.target, cur.new_title,
                                  cur.user))
    /\ UNCHANGED cur

HandleGeneral(outcome) ==
    /\ pc = "dispatch" /\ cur.intent = "other"
    /\ Finish(_handle_general_query(messages, todos, nextTodoId, cur.input,
                                    cur.conv, cur.user, outcome))
    /\ UNCHANGED cur

\* the summaries of the user's two latest returned calls, after one more
Returned(text) ==
    /\ prevCall' = [prevCall EXCEPT ![cur.user] = lastCall[cur.user]]
    /\ lastCall' = [lastCall EXCEPT ![cur.user] = Summary(cur, text)]

\* log the response and return it
LogResponse ==
    /\ pc = "respond"
    /\ messages' = log_response(messages, cur.conv, response)
    /\ ret' = [kind |-> "value", text |-> response]
    /\ pc' = "idle"
    /\ trace' = Append(trace, "message.create")
    /\ Returned(response)
    /\ UNCHANGED <<todos, conversations, nextTodoId, cur, response, aiRequest,
                   exc, nCalls, nExt, fnInput, fnIntent, fnTitle>>

\* process_chat up to the history
ChatBegin(user, user_input) ==
    /\ pc = "idle"
    /\ nCalls < MaxCalls
    /\ LET active == ActiveConversation(conversations, user) IN
        /\ conversations' = active.conversations
        /\ messages' = create_message(messages, active.conversation, "user", user_input)
        /\ cur' = [NoCall EXCEPT !.kind = "chat", !.user = user, !.input = user_input,
                                 !.intent = "chat", !.conv = active.conversation]
        /\ trace' = active.ops \o <<"message.create">>
    /\ pc' = "chat_generate"
    /\ nCalls' = nCalls + 1
    /\ response' = None
    /\ ret' = NoReturn
    /\ aiRequest' = None
    /\ exc' = None
    /\ UNCHANGED <<todos, nextTodoId, nExt, lastCall, prevCall,
                   fnInput, fnIntent, fnTitle>>

\* process_chat: build the history and ask the AI client
ChatGenerate(outcome) ==
    /\ pc = "chat_generate"
    /\ LET recent_messages ==
               get_messages_by_conversation(messages, cur.conv, cur.user, HistoryLimit)
           history == formatted_history(recent_messages, cur.input)
       IN  /\ aiRequest' = [history |-> AllButLast(history), input |-> cur.input]
           /\ response' = IF outcome.raised THEN ErrorPrefix \o outcome.text
                          ELSE outcome.text
           /\ exc' = IF outcome.raised THEN outcome.text ELSE None
    /\ pc' = "chat_respond"
    /\ trace' = trace \o <<"message.list", "ai.send">>
    /\ UNCHANGED <<todos, conversations, messages, nextTodoId, cur, ret, nCalls,
                   nExt, lastCall, prevCall, fnInput, fnIntent, fnTitle>>

\* process_chat: log the response and return it
ChatLog ==
    /\ pc = "chat_respond"
    /\ messages' = create_message(messages, cur.conv, "assistant", response)
    /\ ret' = [kind |-> "value", text |-> response]
    /\ pc' = "idle"
    /\ trace' = Append(trace, "message.create")
    /\ Returned(response)
    /\ UNCHANGED <<todos, conversations, nextTodoId, cur, response, aiRequest,
                   exc, nCalls, nExt, fnInput, fnIntent, fnTitle>>

\* Another client of the todo store deletes a todo between a handler's lookup
\* and its write: the module holds no transaction over the two.
ExternalDelete(i) ==
    /\ pc = "apply"
    /\ nExt < MaxExt
    /\ todos' = SelectSeq(todos, LAMBDA t : t.id # todos[i].id)
    /\ nExt' = nExt + 1
    /\ cur' = IF todos[i].owner = cur.user THEN [cur EXCEPT !.clean = FALSE] ELSE cur
    /\ lastCall' = [lastCall EXCEPT ![todos[i].owner].clean = FALSE]
    /\ UNCHANGED <<conversations, messages, nextTodoId, pc, response, ret,
                   aiRequest, trace, exc, nCalls, prevCall,
                   fnInput, fnIntent, fnTitle>>

-----------------------------------------------------------------------------
(* Initial states: the stores are empty, or hold what earlier sessions left. *)

Todo(id, owner, title, done) ==
    [id |-> id, owner |-> owner, title |-> title, description |-> <<>>,
     is_completed |-> done]

RECURSIVE Turns(_)
Turns(n) ==
    IF n = 0 THEN <<>>
    ELSE Turns(n - 1) \o <<[conv |-> 1, role |-> "user", content |-> <<"h", "i">>],
                           [conv |-> 1, role |-> "assistant", content |-> <<"H", "e", "l", "l", "o", "!">>]>>

PriorTurns == 5

InitialStores ==
    {[todos |-> <<>>, conversations |-> <<>>, messages |-> <<>>],
     [todos |-> <<Todo(1, "u1", <<"p", "a", "y", " ", "r", "e", "n", "t">>, FALSE),
                  Todo(2, "u2", <<"c", "a", "l", "l", " ", "b", "o", "b">>, FALSE),
                  Todo(3, "u1", <<"b", "u", "y", " ", "m", "i", "l", "k">>, TRUE)>>,
      conversations |-> <<[id |-> 1, owner |-> "u1"]>>,
      messages |-> Turns(PriorTurns)]}

InitCall ==
    /\ pc = "idle"
    /\ cur = NoCall
    /\ response = None
    /\ ret = NoReturn
    /\ aiRequest = None
    /\ trace = <<>>
    /\ exc = None
    /\ nCalls = 0
    /\ nExt = 0
    /\ lastCall = [u \in Users |-> NoSummary]
    /\ prevCall = [u \in Users |-> NoSummary]

Init ==
    /\ \E s \in InitialStores :
        /\ todos = s.todos
        /\ conversations = s.conversations
        /\ messages = s.messages
        /\ nextTodoId = Len(s.todos) + 1
    /\ InitCall
    /\ fnInput = <<>>
    /\ fnIntent = None
    /\ fnTitle = None

Next ==
    \/ \E u \in Users, text \in TodoInputs : Begin(u, text)
    \/ HandleAdd
    \/ HandleList
    \/ ResolveTarget
    \/ ResolveUpdate
    \/ ApplyComplete
    \/ ApplyDelete
    \/ ApplyUpdate
    \/ \E outcome \in AiOutcomes : HandleGeneral(outcome)
    \/ LogResponse
    \/ \E u \in Users, text \in ChatInputs : ChatBegin(u, text)
    \/ \E outcome \in AiOutcomes : ChatGenerate(outcome)
    \/ ChatLog
    \/ \E i \in 1..Len(todos) : ExternalDelete(i)

Spec == Init /\ [][Next]_vars

-----------------------------------------------------------------------------
(* The pure functions on their own: every text of up to MaxPieces pieces.    *)

Pieces == {<<"a", "d", "d">>, <<"A", "d", "d">>, <<"n", "e", "w">>, <<"m", "y">>, <<"d", "o", "n", "e">>, <<"e", "r", "a", "s", "e">>, <<"e", "d", "i", "t">>,
           <<"t", "o">>, <<"t">>, <<"o">>, <<"m">>, <<"e">>, <<" ">>, <<"x">>}

RECURSIVE Texts(_)
Texts(n) ==
    IF n = 0 THEN {<<>>}
    ELSE Texts(n - 1) \cup {t \o p : t \in Texts(n - 1), p \in Pieces}

FnInit ==
    /\ todos = <<>>
    /\ conversations = <<>>
    /\ messages = <<>>
    /\ nextTodoId = 1
    /\ InitCall
    /\ fnInput \in Texts(MaxPieces)
    /\ fnIntent = None
    /\ fnTitle = None

Classify ==
    /\ fnIntent = None
    /\ fnIntent' = <<_determine_intent(fnInput)>>
    /\ UNCHANGED <<todos, conversations, messages, nextTodoId, pc, cur, response,
                   ret, aiRequest, trace, exc, nCalls, nExt, lastCall, prevCall,
                   fnInput, fnTitle>>

Extract ==
    /\ fnTitle = None
    /\ fnTitle' = <<"title", _extract_todo_info(fnInput).title>>
    /\ UNCHANGED <<todos, conversations, messages, nextTodoId, pc, cur, response,
                   ret, aiRequest, trace, exc, nCalls, nExt, lastCall, prevCall,
                   fnInput, fnIntent>>

FnNext == Classify \/ Extract

FnSpec == FnInit /\ [][FnNext]_vars

-----------------------------------------------------------------------------
(* Properties *)

ConvMessages(c) == SelectSeq(messages, LAMBDA m : m.conv = c)

ConvsOf(convs, u) == {i \in 1..Len(convs) : convs[i].owner = u}

Alternates(s) ==
    \A i \in 1..Len(s) : s[i].role = IF i % 2 = 1 THEN "user" ELSE "assistant"

EndsWith(s, k) == Len(k) <= Len(s) /\ SubSeq(s, Len(s) - Len(k) + 1, Len(s)) = k

Count(s, x) == Cardinality({i \in 1..Len(s) : s[i] = x})

OwnedBy(tds, u) == {i \in 1..Len(tds) : tds[i].owner = u}

TodoIds(tds) == {tds[i].id : i \in 1..Len(tds)}

\* the step is one of the service, not of another client of the todo store
ServiceStep == nExt' = nExt

\* C1, the log in every state: in each conversation the messages alternate
\* user, assistant, and between calls no user message is left unanswered.
C1_Alternation ==
    \A i \in 1..Len(conversations) :
        LET s == ConvMessages(conversations[i].id) IN
        /\ Alternates(s)
        /\ pc = "idle" => Len(s) % 2 = 0

\* C1, the steps of a todo command: the call appends the user message with the
\* input to a conversation of the caller before any handler runs, the handlers
\* append nothing, a call returns only through the step that appends the
\* assistant message carrying the returned string to the same conversation.
C1_Step ==
    /\ (pc = "idle" /\ pc' = "dispatch") =>
          /\ \E i \in 1..Len(conversations') :
                /\ conversations'[i] = cur'.conv
                /\ cur'.conv.owner = cur'.user
          /\ messages' = Append(messages, [conv |-> cur'.conv.id, role |-> "user",
                                           content |-> cur'.input])
    /\ pc \in {"dispatch", "apply"} =>
          /\ messages' = messages
          /\ cur'.conv = cur.conv
          /\ cur'.input = cur.input
          /\ pc' \in {"dispatch", "apply", "respond"}
    /\ (pc = "respond" /\ pc' # "respond") =>
          /\ pc' = "idle"
          /\ ret'.kind = "value"
          /\ cur' = cur
          /\ messages' = Append(messages, [conv |-> cur.conv.id, role |-> "assistant",
                                           content |-> ret'.text])
    /\ (pc = "respond" /\ pc' = "respond") => messages' = messages

\* C1: every todo command that returns appended exactly one user message with
\* the input and then exactly one assistant message with the returned string to
\* one conversation of the caller, the first before and the second after the
\* handler, whether or not the handler raised; so the messages of a
\* conversation alternate user, assistant.
TheoremC1 == []C1_Alternation /\ [][C1_Step]_vars

\* a complete command whose toggle raised has returned, and the caller's
\* conversation ends with its input and the returned string
WitnessC1 ==
    /\ pc = "idle" /\ cur.kind = "todo" /\ cur.intent = "complete"
    /\ exc = NotFound /\ ret.kind = "value"
    /\ LET s == ConvMessages(cur.conv.id) IN
        /\ Len(s) >= 2
        /\ s[Len(s) - 1] = [conv |-> cur.conv.id, role |-> "user", content |-> cur.input]
        /\ s[Len(s)] = [conv |-> cur.conv.id, role |-> "assistant", content |-> ret.text]

IntentOrder == <<"add", "list", "complete", "delete", "update">>

KeywordSets == <<add_keywords, list_keywords, complete_keywords, delete_keywords,
                 update_keywords>>

\* the intents one of whose keywords occurs in the lowercased text
Matching(text) ==
    {i \in 1..Len(IntentOrder) : AnyKeyword(Lower(text), KeywordSets[i])}

\* C2: _determine_intent returns the first intent in the order Add, List,
\* Complete, Delete, Update one of whose keywords occurs in the lowercased
\* input, Other only when none occurs, and Add whenever an Add keyword and a
\* Delete keyword both occur, wherever they stand.
TheoremC2 ==
    fnIntent # None =>
        LET m == Matching(fnInput) IN
        /\ fnIntent[1] = IF m = {} THEN "other"
                         ELSE IntentOrder[CHOOSE i \in m : \A j \in m : i <= j]
        /\ ({1, 4} \subseteq m => fnIntent[1] = "add")

\* a text that starts with a Delete keyword and holds an Add keyword later
WitnessC2 ==
    /\ fnIntent = <<"add">>
    /\ StartsWith(fnInput, <<"e", "r", "a", "s", "e">>)
    /\ AnyKeyword(Lower(fnInput), add_keywords)
    /\ fnInput # Lower(fnInput)

Title == fnTitle[2]

RECURSIVE IsSubsequence(_, _)
IsSubsequence(a, b) ==
    IF a = <<>> THEN TRUE
    ELSE IF b = <<>> THEN FALSE
    ELSE IF Head(a) = Head(b) THEN IsSubsequence(Tail(a), Tail(b))
    ELSE IsSubsequence(a, Tail(b))

\* C8 as claimed: the title contains none of the seven filler tokens and has
\* no leading or trailing whitespace.
OriginalC8 ==
    fnTitle # None =>
        /\ \A i \in 1..Len(prefixes) : ~Contains(Title, prefixes[i])
        /\ Strip(Title) = Title

\* C8 as amended: the title has no leading or trailing whitespace and no
\* upper-case letter, is what is left of the lowercased input after deleting
\* characters, is the trimmed lowercased input when that holds no filler
\* token, and is at least two characters shorter than it when it holds one.
TheoremC8 ==
    fnTitle # None =>
        LET text == Lower(fnInput) IN
        /\ Strip(Title) = Title
        /\ Lower(Title) = Title
        /\ IsSubsequence(Title, text)
        /\ IF AnyKeyword(text, prefixes)
           THEN Len(Title) + 2 <= Len(Strip(text))
           ELSE Title = Strip(text)

\* the removal of "to" joins "m" and "e": the title is the filler token "me"
WitnessC8 ==
    /\ fnTitle # None
    /\ fnInput = <<"m", "t", "o", "e">>
    /\ Title = <<"m", "e">>


\* the caller's conversation ends with the messages s
LogEndsWith(s) == EndsWith(ConvMessages(cur.conv.id), s)

UserTurn == [conv |-> cur.conv.id, role |-> "user", content |-> cur.input]

\* C3: when a handler of a todo command raised (a todo-store error, an AI
\* client error), the exception does not leave the call: the call returns the
\* error string with the exception's details, the user message stays logged,
\* the same error string is logged as the assistant message of the turn, and
\* no store or AI operation of the call was issued twice.
TheoremC3 ==
    (cur.kind = "todo" /\ exc # None) =>
        /\ pc \in {"respond", "idle"}
        /\ ret.kind # "raise"
        /\ pc = "respond" =>
              /\ response = ErrorPrefix \o exc
              /\ LogEndsWith(<<UserTurn>>)
        /\ pc = "idle" =>
              /\ ret = [kind |-> "value", text |-> ErrorPrefix \o exc]
              /\ LogEndsWith(<<UserTurn, [conv |-> cur.conv.id, role |-> "assistant",
                                          content |-> ErrorPrefix \o exc]>>)
        /\ \A i \in 1..Len(trace) :
              trace[i] # "message.create" => Count(trace, trace[i]) = 1

\* an update whose todo was deleted by another client before the write has
\* returned the error string with the store's NotFound details
WitnessC3 ==
    /\ pc = "idle" /\ cur.kind = "todo" /\ cur.intent = "update"
    /\ exc = NotFound
    /\ ret = [kind |-> "value", text |-> ErrorPrefix \o NotFound]
    /\ Count(trace, "todo.update") = 1

Completed == <<"'", " ", "a", "s", " ", "c", "o", "m", "p", "l", "e", "t", "e", "d", ".">>
Incomplete == <<"'", " ", "a", "s", " ", "m", "a", "r", "k", "e", "d", " ", "a", "s", " ", "i", "n", "c", "o", "m", "p", "l", "e", "t", "e", ".">>

\* the user's two latest returned calls are Complete commands with no other
\* operation of the user between or during them, and the first found a todo
TwoCompletes(u) ==
    /\ prevCall[u].valid /\ lastCall[u].valid
    /\ prevCall[u].intent = "complete" /\ lastCall[u].intent = "complete"
    /\ prevCall[u].clean /\ lastCall[u].clean
    /\ prevCall[u].target # <<>>

\* each of the two commands flipped the flag of the same todo once, the second
\* back to the original value
ToggledTwice(u) ==
    LET a == prevCall[u]
        b == lastCall[u]
    IN  /\ b.target = a.target
        /\ Len(a.flags) = 2 /\ Len(b.flags) = 2
        /\ a.flags[2] = ~a.flags[1]
        /\ b.flags[1] = a.flags[2]
        /\ b.flags[2] = a.flags[1]

\* C4 as claimed: two Complete commands in a row flip the same most recent
\* todo there and back, and the texts say "completed" for the first and
\* "marked as incomplete" for the second.
OriginalC4 ==
    \A u \in Users :
        TwoCompletes(u) =>
            /\ ToggledTwice(u)
            /\ EndsWith(prevCall[u].text, Completed)
            /\ EndsWith(lastCall[u].text, Incomplete)

\* C4 as amended: two Complete commands in a row flip the same most recent
\* todo there and back, and each text tells the flag its command set:
\* "completed" then "marked as incomplete" when the todo was incomplete before
\* the first, "marked as incomplete" then "completed" when it was completed.
TheoremC4 ==
    \A u \in Users :
        TwoCompletes(u) =>
            /\ ToggledTwice(u)
            /\ EndsWith(prevCall[u].text,
                        IF prevCall[u].flags[1] THEN Incomplete ELSE Completed)
            /\ EndsWith(lastCall[u].text,
                        IF prevCall[u].flags[1] THEN Completed ELSE Incomplete)

\* two Complete commands in a row on a todo that was incomplete
WitnessC4 ==
    \E u \in Users :
        /\ TwoCompletes(u)
        /\ prevCall[u].flags = <<FALSE, TRUE>>
        /\ lastCall[u].flags = <<TRUE, FALSE>>
        /\ pc = "idle"

GuidanceOf(intent) ==
    IF intent = "complete" THEN NoTodoToComplete
    ELSE IF intent = "delete" THEN NoTodoToDelete
    ELSE NoTodoToUpdate

WriteOps == {"todo.create", "todo.toggle", "todo.delete", "todo.update"}

C5_Step ==
    (/\ pc = "dispatch"
     /\ cur.intent \in {"complete", "delete", "update"}
     /\ OwnedBy(todos, cur.user) = {}) =>
        /\ pc' = "respond"
        /\ response' = GuidanceOf(cur.intent)
        /\ ~StartsWith(response', ErrorPrefix)
        /\ exc' = None
        /\ todos' = todos
        /\ \A i \in 1..Len(trace') : trace'[i] \notin WriteOps

\* C5: when the caller owns no todo, a Delete, Complete or Update command
\* returns its handler's fixed guidance sentence, not the generic error
\* string, issues no delete, toggle or update, and leaves the todo store as
\* it was.
TheoremC5 == [][C5_Step]_vars

\* a Delete command of a user without todos, while another user has one, is
\* about to return the guidance sentence
WitnessC5 ==
    /\ pc = "respond" /\ cur.intent = "delete"
    /\ OwnedBy(todos, cur.user) = {}
    /\ todos # <<>>
    /\ response = NoTodoToDelete
    /\ trace = <<"conversation.list", "message.create", "todo.list">>

Formatted(msgs) ==
    [i \in 1..Len(msgs) |-> [role |-> msgs[i].role, parts |-> <<msgs[i].content>>]]

\* C6: for an Other command the history handed to the AI client is made of at
\* most the last 10 messages of the conversation, roles and order kept,
\* without the input just logged, which goes to the model once, as the live
\* turn.
OriginalC6 ==
    (pc = "respond" /\ cur.intent = "other") =>
        LET logged == ConvMessages(cur.conv.id)
            earlier == AllButLast(logged)
        IN  /\ aiRequest.input = cur.input
            /\ Len(aiRequest.history) <= HistoryLimit
            /\ \/ aiRequest.history = Formatted(LastN(earlier, HistoryLimit))
               \/ aiRequest.history = Formatted(LastN(earlier, HistoryLimit - 1))

C7_Step ==
    (pc = "dispatch" /\ cur.intent = "add") =>
        /\ Len(todos') = Len(todos) + 1
        /\ SubSeq(todos', 1, Len(todos)) = todos
        /\ LET new == todos'[Len(todos')] IN
            /\ new.id \notin TodoIds(todos)
            /\ new.owner = cur.user
            /\ new.title = _extract_todo_info(cur.input).title
            /\ new.description = <<>>
            /\ new.is_completed = FALSE
            /\ cur.input = <<"a", "d", "d">> => new.title = <<>>
            /\ cur.input = <<"R", "e", "m", "i", "n", "d", " ", "m", "e", " ", "t", "o", " ", "b", "u", "y", " ", "m", "i", "l", "k">> => new.title = <<"b", "u", "y", " ", "m", "i", "l", "k">>
            /\ pc' = "respond"
            /\ Contains(response', new.title)
            /\ response' = <<"I", "'", "v", "e", " ", "a", "d", "d", "e", "d", " ", "'">> \o new.title \o <<"'", " ", "t", "o", " ", "y", "o", "u", "r", " ", "t", "o", "d", "o", " ", "l", "i", "s", "t", ".">>

\* C7: an Add command creates exactly one todo, owned by the caller, with the
\* title extracted from the input, an empty description and the completion
\* flag false, changes no other todo, and returns a string that contains the
\* title; an empty extracted title is stored as it is.
TheoremC7 == [][C7_Step]_vars

\* the input "add" has added a todo with the empty title
WitnessC7 ==
    /\ pc = "respond" /\ cur.intent = "add" /\ cur.input = <<"a", "d", "d">>
    /\ Len(todos) >= 2
    /\ todos[Len(todos)].title = <<>>
    /\ todos[Len(todos)].owner = cur.user
    /\ response = <<"I", "'", "v", "e", " ", "a", "d", "d", "e", "d", " ", "'", "'", " ", "t", "o", " ", "y", "o", "u", "r", " ", "t", "o", "d", "o", " ", "l", "i", "s", "t", ".">>

C9_Step ==
    /\ Len(conversations') >= Len(conversations)
    /\ SubSeq(conversations', 1, Len(conversations)) = conversations
    /\ conversations' # conversations =>
          /\ pc = "idle"
          /\ ConvsOf(conversations, cur'.user) = {}
          /\ conversations' = Append(conversations, cur'.conv)
          /\ cur'.conv.owner = cur'.user
    /\ messages' # messages =>
          /\ Len(messages') = Len(messages) + 1
          /\ SubSeq(messages', 1, Len(messages)) = messages
          /\ ConvsOf(conversations', cur'.user) # {}
          /\ \A i \in ConvsOf(conversations', cur'.user) :
                messages'[Len(messages')].conv = conversations'[i].id

C9_One ==
    \A u \in Users :
        /\ Cardinality(ConvsOf(conversations, u)) <= 1
        /\ lastCall[u].valid => Cardinality(ConvsOf(conversations, u)) = 1

\* C9: a conversation is created only by a call whose user has none, none is
\* ever deleted, and every message of a turn is appended to the one
\* conversation of its user: a user has at most one conversation, exactly one
\* after any call.
TheoremC9 == []C9_One /\ [][C9_Step]_vars

\* a user who started without a conversation has made two calls, and all four
\* messages are in that user's one conversation
WitnessC9 ==
    /\ pc = "idle"
    /\ conversations # <<>> /\ conversations[1].owner = "u1"
    /\ lastCall["u2"].valid /\ prevCall["u2"].valid
    /\ Cardinality(ConvsOf(conversations, "u2")) = 1
    /\ \A i \in ConvsOf(conversations, "u2") :
          Len(ConvMessages(conversations[i].id)) = 4

\* the todo with this id, if there is one
TodoWith(tds, id) == {tds[i] : i \in {j \in 1..Len(tds) : tds[j].id = id}}

\* the todos other than those with an id in ids are the same, in the same order
SameExcept(old, new, ids) ==
    SelectSeq(old, LAMBDA t : t.id \notin ids) = SelectSeq(new, LAMBDA t : t.id \notin ids)

\* the id of the most recently created todo of the user
NewestOf(tds, u) ==
    CHOOSE id \in {tds[i].id : i \in OwnedBy(tds, u)} :
        \A i \in OwnedBy(tds, u) : tds[i].id <= id

\* the todo the call acts on: its id is cur.target
TargetIds(tds) == {id \in TodoIds(tds) : IdStr(id) = cur.target}

C10_Step ==
    ServiceStep =>
        /\ pc \notin {"dispatch", "apply"} => todos' = todos
        /\ (pc = "dispatch" /\ cur.intent # "add") => todos' = todos
        /\ (pc = "dispatch" /\ cur.intent = "add") =>
              /\ Len(todos') = Len(todos) + 1
              /\ SubSeq(todos', 1, Len(todos)) = todos
              /\ todos'[Len(todos')].owner = cur.user
        /\ (pc = "dispatch" /\ pc' = "apply") =>
              /\ OwnedBy(todos, cur.user) # {}
              /\ cur'.target = IdStr(NewestOf(todos, cur.user))
        /\ pc = "apply" =>
              /\ pc' \in {"respond", "idle"}
              /\ SameExcept(todos, todos', TargetIds(todos))
              /\ TodoIds(todos') \subseteq TodoIds(todos)
              /\ \A id \in TargetIds(todos) : \A t \in TodoWith(todos, id) :
                    /\ todos' # todos => t.owner = cur.user
                    /\ cur.intent = "delete" => TodoWith(todos', id) = {}
                    /\ cur.intent = "complete" =>
                          TodoWith(todos', id) =
                              {[t EXCEPT !.is_completed = ~t.is_completed]}
                    /\ cur.intent = "update" =>
                          TodoWith(todos', id) = {[t EXCEPT !.title = cur.new_title]}
              /\ Cardinality(TargetIds(todos)) <= 1

\* C10: a todo command changes at most one todo, one of the caller: List and
\* Other change none, Add inserts one and changes none, Complete, Delete and
\* Update act only on the todo the store names as the caller's most recently
\* created (its flag, its existence, its title), and every other todo keeps
\* its title, flag and existence.
TheoremC10 == [][C10_Step]_vars

\* an Update command has retitled the caller's latest todo, a completed one,
\* and the other todos are there
WitnessC10 ==
    /\ pc = "respond" /\ cur.intent = "update" /\ exc = None
    /\ Len(todos) = 3
    /\ todos[3] = Todo(3, cur.user, cur.new_title, TRUE)
    /\ cur.new_title = <<"F", "i", "x", " ", "t", "a", "p">>
    /\ todos[2].owner # cur.user

====
